---- MODULE Spec2Model ----
(***************************************************************************)
(* Hang Hive: the REST handlers of server.js over the persisted document   *)
(* {users, groups} (data/database.json).                                   *)
(*                                                                         *)
(* Every handler is synchronous (readFileSync, mutate, writeFileSync), so  *)
(* one handler is one atomic action.  Strings are sequences of one-letter  *)
(* strings, so that trim, toLowerCase and toUpperCase are computed.  A     *)
(* request field that is missing or empty is the empty string: both are    *)
(* falsy in the handlers' guards.  Timestamps (createdAt, timestamp) are   *)
(* never read by a handler and are left out of the records.  res is the    *)
(* answer to the last request, with the route that gave it.  disk is     *)
(* the state of the file system: the reads and writes of DATA_FILE work    *)
(* ("ok"), or the next read throws, or the next write throws; it changes   *)
(* in the specifications that have the DiskFault action only.              *)
(*                                                                         *)
(* The clients of the hosted store (firebase.js, main.js) are asynchronous: *)
(* a client function is one action up to each await of a store call, and   *)
(* the store call takes effect in an action of its own.  cloud is the      *)
(* 'groups' collection, here of at most one document, and client holds     *)
(* each client's currentGroup and the store call it has in flight.         *)
(***************************************************************************)
EXTENDS Integers, Sequences, FiniteSets, TLC

VARIABLES users, groups, nextId, res, cloud, client, disk

vars == <<users, groups, nextId, res, cloud, client, disk>>

\* The state of the hosted store and of its clients, and the state of the
\* file system, which no handler of the server changes
storeVars == <<cloud, client, disk>>

(***************************************************************************)
(* Bounds of the model                                                     *)
(***************************************************************************)
\* The number of values generateId hands out in one behaviour: users, groups,
\* hangouts and messages created, all told
MaxId == 3

\* The number of groups stored at a time
MaxGroups == 2

\* The number of messages of a group where the reactions of several users
\* with several emoji are explored (SpecReact)
MaxMessages == 1

\* The number of hangouts of a group where the answers of several users with
\* every kind of value are explored (SpecRespond)
MaxHangouts == 1

\* The number of messages of a client's copy of a group up to which the
\* client sends another one (SpecChatClient)
MaxLocalMessages == 2

(***************************************************************************)
(* Strings                                                                 *)
(***************************************************************************)
lowerLetters ==
  <<"a","b","c","d","e","f","g","h","i","j","k","l","m",
    "n","o","p","q","r","s","t","u","v","w","x","y","z">>

letters ==
  <<"A","B","C","D","E","F","G","H","I","J","K","L","M",
    "N","O","P","Q","R","S","T","U","V","W","X","Y","Z">>

numbers == <<"0","1","2","3","4","5","6","7","8","9">>

\* The letter of the other casing, as a table over the letters that have one
lowerOf == [c \in {letters[k] : k \in 1..Len(letters)} |->
              lowerLetters[CHOOSE k \in 1..Len(letters) : letters[k] = c]]

upperOf == [c \in {lowerLetters[k] : k \in 1..Len(lowerLetters)} |->
              letters[CHOOSE k \in 1..Len(lowerLetters) : lowerLetters[k] = c]]

toLowerCase(s) ==
  [i \in 1..Len(s) |-> IF s[i] \in DOMAIN lowerOf THEN lowerOf[s[i]] ELSE s[i]]

toUpperCase(s) ==
  [i \in 1..Len(s) |-> IF s[i] \in DOMAIN upperOf THEN upperOf[s[i]] ELSE s[i]]

RECURSIVE trimStart(_)
trimStart(s) ==
  IF s # <<>> /\ Head(s) = " " THEN trimStart(Tail(s)) ELSE s

RECURSIVE trimEnd(_)
trimEnd(s) ==
  IF s # <<>> /\ s[Len(s)] = " " THEN trimEnd(SubSeq(s, 1, Len(s) - 1)) ELSE s

trim(s) == trimEnd(trimStart(s))

\* !x for a string field: missing or empty
falsy(s) == s = <<>>

\* Array.prototype.includes
includes(arr, x) == \E i \in 1..Len(arr) : arr[i] = x

\* Array.prototype.findIndex (and find, as an index): the first index whose
\* element passes the test; tested[i] is the test's result on element i, and
\* 0 stands for -1 (for find: undefined)
findIndex(tested) ==
  IF \E i \in 1..Len(tested) : tested[i]
  THEN CHOOSE i \in 1..Len(tested) :
         tested[i] /\ \A j \in 1..(i - 1) : ~tested[j]
  ELSE 0

\* Array.prototype.splice(index, 1)
splice(arr, index) ==
  [i \in 1..(Len(arr) - 1) |-> IF i < index THEN arr[i] ELSE arr[i + 1]]

(***************************************************************************)
(* Database functions                                                      *)
(***************************************************************************)
\* The document read from DATA_FILE, or the empty document of the catch
\* when the read throws
loadDatabase ==
  IF disk = "readFails"
  THEN [users |-> <<>>, groups |-> <<>>]
  ELSE [users |-> users, groups |-> groups]

\* Mutant: the written document keeps the newest message of each group only
saveDatabaseNewestMessage(db) ==
  /\ users' = db.users
  /\ groups' = [i \in 1..Len(db.groups) |->
                  [db.groups[i] EXCEPT !.messages =
                     IF Len(@) > 1 THEN <<@[Len(@)]>> ELSE @]]

\* The whole document is written back to DATA_FILE
\* unless the write throws: the catch returns false, which no handler reads
saveDatabase(db) ==
  IF disk = "writeFails"
  THEN UNCHANGED <<users, groups>>
  ELSE /\ users' = db.users
       /\ groups' = db.groups

\* The file system starts or stops failing
DiskFault(state) ==
  /\ disk # state
  /\ disk' = state
  /\ UNCHANGED <<users, groups, nextId, res, cloud, client>>

\* Math.random().toString(36).substring(2, 9): one of 36^7 strings, taken
\* here as a value that was not returned before
generateId == nextId

\* Three letters, '-', four digits; r is the sequence of the seven
\* Math.floor(Math.random() * length) draws
generateGroupCode(r) ==
  <<letters[r[1] + 1], letters[r[2] + 1], letters[r[3] + 1], "-",
    numbers[r[4] + 1], numbers[r[5] + 1], numbers[r[6] + 1], numbers[r[7] + 1]>>

\* res.status(s).json(body), the answer of the handler of a route; res.json(body)
\* is status 200
Response(route, status, body) == [route |-> route, status |-> status, body |-> body]

Error(route, status, message) == Response(route, status, [error |-> message])

(***************************************************************************)
(* POST /api/users/login                                                   *)
(***************************************************************************)
\* db.users.find(u => u.username.toLowerCase() === username.toLowerCase())
LoginLookup(dbUsers, username) ==
  findIndex([i \in 1..Len(dbUsers) |->
               toLowerCase(dbUsers[i].username) = toLowerCase(username)])

Login(username) ==
  /\ IF falsy(username) \/ trim(username) = <<>>
     THEN /\ res' = Error("login", 400, "Username is required")
          /\ UNCHANGED <<users, groups, nextId>>
     ELSE LET db == loadDatabase
              k == LoginLookup(db.users, username)
          IN IF k = 0
             THEN /\ nextId <= MaxId
                  /\ LET user == [id |-> generateId, username |-> trim(username)]
                     IN /\ saveDatabase([db EXCEPT !.users = Append(@, user)])
                        /\ res' = Response("login", 200, [success |-> TRUE, user |-> user])
                  /\ nextId' = nextId + 1
             ELSE /\ res' = Response("login", 200, [success |-> TRUE, user |-> db.users[k]])
                  /\ UNCHANGED <<users, groups, nextId>>

(***************************************************************************)
(* GET /api/groups, GET /api/groups/:id                                    *)
(***************************************************************************)
\* Mutant: an id no group has finds the first stored group
FindGroupOrFirst(dbGroups, id) ==
  IF \E i \in 1..Len(dbGroups) : dbGroups[i].id = id
  THEN findIndex([i \in 1..Len(dbGroups) |-> dbGroups[i].id = id])
  ELSE IF Len(dbGroups) > 0 THEN 1 ELSE 0

\* db.groups.find(g => g.id === id), as an index (0: not found)
FindGroup(dbGroups, id) == findIndex([i \in 1..Len(dbGroups) |-> dbGroups[i].id = id])

\* group.hangouts.findIndex(h => h.id === hangoutId)
FindHangout(hangouts, hangoutId) ==
  findIndex([i \in 1..Len(hangouts) |-> hangouts[i].id = hangoutId])

\* Mutant: the listing is not filtered
filterGroupsAll(dbGroups, username) == dbGroups

\* groups.filter(g => g.members.includes(username)) when a username is given
filterGroups(dbGroups, username) ==
  IF falsy(username)
  THEN dbGroups
  ELSE SelectSeq(dbGroups, LAMBDA g : includes(g.members, username))

ListGroups(username) ==
  /\ res' = Response("listGroups", 200, [groups |-> filterGroups(loadDatabase.groups, username)])
  /\ UNCHANGED <<users, groups, nextId>>

GetGroup(id) ==
  /\ LET db == loadDatabase
         k == FindGroup(db.groups, id)
     IN res' = IF k = 0
               THEN Error("getGroup", 404, "Group not found")
               ELSE Response("getGroup", 200, [group |-> db.groups[k]])
  /\ UNCHANGED <<users, groups, nextId>>

(***************************************************************************)
(* POST /api/groups                                                        *)
(***************************************************************************)
\* Mutant: the creator is not made a member
NewGroupNoMember(name, createdBy, r) ==
  [id |-> generateId,
   name |-> trim(name),
   code |-> generateGroupCode(r),
   members |-> <<>>,
   createdBy |-> createdBy,
   hangouts |-> <<>>,
   messages |-> <<>>]

\* The record pushed by the create handler; r are the random draws of
\* generateGroupCode
NewGroup(name, createdBy, r) ==
  [id |-> generateId,
   name |-> trim(name),
   code |-> generateGroupCode(r),
   members |-> <<createdBy>>,
   createdBy |-> createdBy,
   hangouts |-> <<>>,
   messages |-> <<>>]

CreateGroup(name, createdBy, r) ==
  /\ IF falsy(name) \/ trim(name) = <<>>
     THEN /\ res' = Error("createGroup", 400, "Group name is required")
          /\ UNCHANGED <<users, groups, nextId>>
     ELSE IF falsy(createdBy)
     THEN /\ res' = Error("createGroup", 400, "Creator username is required")
          /\ UNCHANGED <<users, groups, nextId>>
     ELSE LET db == loadDatabase
              newGroup == NewGroup(name, createdBy, r)
          IN /\ nextId <= MaxId
             /\ Len(db.groups) < MaxGroups
             /\ saveDatabase([db EXCEPT !.groups = Append(@, newGroup)])
             /\ nextId' = nextId + 1
             /\ res' = Response("createGroup", 200, [success |-> TRUE, group |-> newGroup])

(***************************************************************************)
(* POST /api/groups/join                                                   *)
(***************************************************************************)
\* Mutant: the codes are compared as they are
FindGroupByCodeExact(dbGroups, code) ==
  findIndex([i \in 1..Len(dbGroups) |-> dbGroups[i].code = code])

\* db.groups.find(g => g.code.toUpperCase() === code.toUpperCase())
FindGroupByCode(dbGroups, code) ==
  findIndex([i \in 1..Len(dbGroups) |->
               toUpperCase(dbGroups[i].code) = toUpperCase(code)])

\* Mutant: the membership test is missing
alreadyMemberNever(members, username) == FALSE

\* The membership test that guards the push
alreadyMember(members, username) == includes(members, username)

JoinGroup(code, username) ==
  /\ IF falsy(code)
     THEN /\ res' = Error("joinGroup", 400, "Group code is required")
          /\ UNCHANGED <<users, groups, nextId>>
     ELSE IF falsy(username)
     THEN /\ res' = Error("joinGroup", 400, "Username is required")
          /\ UNCHANGED <<users, groups, nextId>>
     ELSE LET db == loadDatabase
              k == FindGroupByCode(db.groups, code)
          IN IF k = 0
             THEN /\ res' = Error("joinGroup", 404, "No group found with that code")
                  /\ UNCHANGED <<users, groups, nextId>>
             ELSE IF alreadyMember(db.groups[k].members, username)
             THEN /\ res' = Error("joinGroup", 400, "You are already in this group")
                  /\ UNCHANGED <<users, groups, nextId>>
             ELSE LET db2 == [db EXCEPT !.groups[k].members = Append(@, username)]
                  IN /\ saveDatabase(db2)
                     /\ res' = Response("joinGroup", 200, [success |-> TRUE, group |-> db2.groups[k]])
                     /\ UNCHANGED nextId

(***************************************************************************)
(* POST /api/groups/:id/leave                                              *)
(***************************************************************************)
\* Mutant: the filter keeps the leaver instead of the others
leaveMembersInverted(members, username) == SelectSeq(members, LAMBDA m : m = username)

\* group.members.filter(m => m !== username)
leaveMembers(members, username) == SelectSeq(members, LAMBDA m : m # username)

\* Mutant: an emptied group is kept
leaveGroupsKeep(dbGroups, groupIndex, members) ==
  [dbGroups EXCEPT ![groupIndex].members = members]

\* Mutant: the leave also clears the hangouts of the group it keeps
leaveGroupsClearHangouts(dbGroups, groupIndex, members) ==
  IF Len(members) = 0
  THEN splice(dbGroups, groupIndex)
  ELSE [dbGroups EXCEPT ![groupIndex].members = members, ![groupIndex].hangouts = <<>>]

\* The groups array after the leave: the group is spliced out when its
\* member list became empty
leaveGroups(dbGroups, groupIndex, members) ==
  IF Len(members) = 0
  THEN splice(dbGroups, groupIndex)
  ELSE [dbGroups EXCEPT ![groupIndex].members = members]

LeaveGroup(id, username) ==
  /\ LET db == loadDatabase
         groupIndex == FindGroup(db.groups, id)
     IN IF groupIndex = 0
        THEN /\ res' = Error("leaveGroup", 404, "Group not found")
             /\ UNCHANGED <<users, groups, nextId>>
        ELSE LET members == leaveMembers(db.groups[groupIndex].members, username)
             IN /\ saveDatabase([db EXCEPT !.groups = leaveGroups(@, groupIndex, members)])
                /\ res' = Response("leaveGroup", 200, [success |-> TRUE, deleted |-> Len(members) = 0])
                /\ UNCHANGED nextId

(***************************************************************************)
(* POST /api/groups/:id/hangouts                                           *)
(***************************************************************************)
\* Mutant: the responses start empty
initialResponsesNone(proposedBy) == [u \in {} |-> "going"]

\* { [proposedBy]: 'going' }
initialResponses(proposedBy) == [u \in {proposedBy} |-> "going"]

NewHangout(title, date, time, location, description, proposedBy) ==
  [id |-> generateId,
   title |-> trim(title),
   date |-> date,
   time |-> time,
   location |-> trim(location),
   description |-> IF falsy(description) THEN <<>> ELSE trim(description),
   proposedBy |-> proposedBy,
   responses |-> initialResponses(proposedBy)]

ProposeHangout(id, title, date, time, location, description, proposedBy) ==
  /\ IF falsy(title) \/ falsy(date) \/ falsy(time) \/ falsy(location)
     THEN /\ res' = Error("proposeHangout", 400, "Title, date, time, and location are required")
          /\ UNCHANGED <<users, groups, nextId>>
     ELSE LET db == loadDatabase
              k == FindGroup(db.groups, id)
          IN IF k = 0
             THEN /\ res' = Error("proposeHangout", 404, "Group not found")
                  /\ UNCHANGED <<users, groups, nextId>>
             ELSE LET newHangout ==
                        NewHangout(title, date, time, location, description, proposedBy)
                      db2 == [db EXCEPT !.groups[k].hangouts = Append(@, newHangout)]
                  IN /\ nextId <= MaxId
                     /\ saveDatabase(db2)
                     /\ nextId' = nextId + 1
                     /\ res' = Response("proposeHangout", 200, [success |-> TRUE, hangout |-> newHangout,
                                              hangouts |-> db2.groups[k].hangouts])

(***************************************************************************)
(* POST /api/groups/:groupId/hangouts/:hangoutId/respond                   *)
(***************************************************************************)
validResponses == {"going", "maybe", "notGoing"}

\* Mutant: a response the user already gave is kept
setResponseKeepPrior(responses, username, response) ==
  [u \in DOMAIN responses \cup {username} |->
     IF u \in DOMAIN responses THEN responses[u] ELSE response]

\* hangout.responses[username] = response
setResponse(responses, username, response) ==
  [u \in DOMAIN responses \cup {username} |->
     IF u = username THEN response ELSE responses[u]]

RespondToHangout(groupId, hangoutId, username, response) ==
  /\ IF response \notin validResponses
     THEN /\ res' = Error("respondToHangout", 400, "Invalid response. Must be: going, maybe, or notGoing")
          /\ UNCHANGED <<users, groups, nextId>>
     ELSE LET db == loadDatabase
              k == FindGroup(db.groups, groupId)
          IN IF k = 0
             THEN /\ res' = Error("respondToHangout", 404, "Group not found")
                  /\ UNCHANGED <<users, groups, nextId>>
             ELSE LET h == FindHangout(db.groups[k].hangouts, hangoutId)
                  IN IF h = 0
                     THEN /\ res' = Error("respondToHangout", 404, "Hangout not found")
                          /\ UNCHANGED <<users, groups, nextId>>
                     ELSE LET db2 == [db EXCEPT !.groups[k].hangouts[h].responses =
                                                   setResponse(@, username, response)]
                          IN /\ saveDatabase(db2)
                             /\ res' = Response("respondToHangout", 200, [success |-> TRUE,
                                                      hangout |-> db2.groups[k].hangouts[h]])
                             /\ UNCHANGED nextId

(***************************************************************************)
(* DELETE /api/groups/:groupId/hangouts/:hangoutId                         *)
(***************************************************************************)
\* The body's username is what API callers may send; the handler never
\* reads req.body
DeleteHangout(groupId, hangoutId, username) ==
  /\ LET db == loadDatabase
         k == FindGroup(db.groups, groupId)
     IN IF k = 0
        THEN /\ res' = Error("deleteHangout", 404, "Group not found")
             /\ UNCHANGED <<users, groups, nextId>>
        ELSE LET hangoutIndex == FindHangout(db.groups[k].hangouts, hangoutId)
             IN IF hangoutIndex = 0
                THEN /\ res' = Error("deleteHangout", 404, "Hangout not found")
                     /\ UNCHANGED <<users, groups, nextId>>
                ELSE /\ saveDatabase([db EXCEPT !.groups[k].hangouts =
                                                  splice(@, hangoutIndex)])
                     /\ res' = Response("deleteHangout", 200, [success |-> TRUE])
                     /\ UNCHANGED nextId

(***************************************************************************)
(* getHangoutStatus of the clients                                         *)
(***************************************************************************)
\* Object.values(hangout.responses).filter(r => r === value).length
countResponses(responses, value) ==
  Cardinality({ u \in DOMAIN responses : responses[u] = value })

\* helpers: count > memberCount / 2 is a comparison of reals, which for
\* integers is 2 * count > memberCount
getHangoutStatus(hangout, memberCount) ==
  LET goingCount == countResponses(hangout.responses, "going")
      notGoingCount == countResponses(hangout.responses, "notGoing")
  IN IF 2 * goingCount > memberCount THEN "confirmed"
     ELSE IF 2 * notGoingCount > memberCount THEN "cancelled"
     ELSE "pending"

\* firebase.js: the same comparisons
getHangoutStatusFirebase(hangout, memberCount) ==
  LET goingCount == countResponses(hangout.responses, "going")
      notGoingCount == countResponses(hangout.responses, "notGoing")
  IN IF 2 * goingCount > memberCount THEN "confirmed"
     ELSE IF 2 * notGoingCount > memberCount THEN "cancelled"
     ELSE "pending"

\* Math.ceil(n / 2) for n >= 0
ceilHalf(n) == (n + 1) \div 2

\* main.js: count >= Math.ceil(memberCount / 2)
getHangoutStatusMain(hangout, memberCount) ==
  LET goingCount == countResponses(hangout.responses, "going")
      notGoingCount == countResponses(hangout.responses, "notGoing")
  IN IF goingCount >= ceilHalf(memberCount) THEN "confirmed"
     ELSE IF notGoingCount >= ceilHalf(memberCount) THEN "cancelled"
     ELSE "pending"

(***************************************************************************)
(* GET and POST /api/groups/:id/messages                                   *)
(***************************************************************************)
\* group.messages.find(m => m.id === messageId), as an index (0: not found)
FindMessage(messages, messageId) ==
  findIndex([i \in 1..Len(messages) |-> messages[i].id = messageId])

ListMessages(id) ==
  /\ LET db == loadDatabase
         k == FindGroup(db.groups, id)
     IN res' = IF k = 0
               THEN Error("listMessages", 404, "Group not found")
               ELSE Response("listMessages", 200, [messages |-> db.groups[k].messages])
  /\ UNCHANGED <<users, groups, nextId>>

\* Mutant: the new message starts with a reaction of its sender
NewMessageReacted(text, sender) ==
  [id |-> generateId,
   text |-> trim(text),
   sender |-> sender,
   reactions |-> [e \in {"like"} |-> <<sender>>]]

\* The record pushed by the send handler; reactions: {} is the map of no emoji
NewMessage(text, sender) ==
  [id |-> generateId,
   text |-> trim(text),
   sender |-> sender,
   reactions |-> [e \in {} |-> <<>>]]

SendMessage(id, text, sender) ==
  /\ IF falsy(text) \/ trim(text) = <<>>
     THEN /\ res' = Error("sendMessage", 400, "Message text is required")
          /\ UNCHANGED <<users, groups, nextId>>
     ELSE LET db == loadDatabase
              k == FindGroup(db.groups, id)
          IN IF k = 0
             THEN /\ res' = Error("sendMessage", 404, "Group not found")
                  /\ UNCHANGED <<users, groups, nextId>>
             ELSE LET newMessage == NewMessage(text, sender)
                      db2 == [db EXCEPT !.groups[k].messages = Append(@, newMessage)]
                  IN /\ nextId <= MaxId
                     /\ saveDatabase(db2)
                     /\ nextId' = nextId + 1
                     /\ res' = Response("sendMessage", 200, [success |-> TRUE,
                                              message |-> newMessage,
                                              messages |-> db2.groups[k].messages])

(***************************************************************************)
(* POST /api/groups/:groupId/messages/:messageId/react                     *)
(***************************************************************************)
\* Array.prototype.indexOf, 0 standing for -1
indexOf(arr, x) == findIndex([i \in 1..Len(arr) |-> arr[i] = x])

\* Mutant: the reaction is added whether or not the user already reacted
toggleReactionAddOnly(reactions, emoji, username) ==
  [e \in DOMAIN reactions \cup {emoji} |->
     IF e = emoji
     THEN Append(IF emoji \in DOMAIN reactions THEN reactions[emoji] ELSE <<>>, username)
     ELSE reactions[e]]

\* Mutant: the emoji's key stays when its array became empty
toggleReactionKeepKey(reactions, emoji, username) ==
  LET reacted == IF emoji \in DOMAIN reactions THEN reactions[emoji] ELSE <<>>
  IN [e \in DOMAIN reactions \cup {emoji} |->
        IF e # emoji THEN reactions[e]
        ELSE IF includes(reacted, username)
        THEN SelectSeq(reacted, LAMBDA name : name # username)
        ELSE Append(reacted, username)]

\* message.reactions after the handler's toggle: the username is pushed on
\* the emoji's array when it is not in it, spliced out when it is, and the
\* emoji's key is deleted when its array became empty
toggleReaction(reactions, emoji, username) ==
  LET reacted == IF emoji \in DOMAIN reactions THEN reactions[emoji] ELSE <<>>
      userIndex == indexOf(reacted, username)
  IN IF userIndex = 0
     THEN [e \in DOMAIN reactions \cup {emoji} |->
             IF e = emoji THEN Append(reacted, username) ELSE reactions[e]]
     ELSE IF Len(splice(reacted, userIndex)) = 0
     THEN [e \in DOMAIN reactions \ {emoji} |-> reactions[e]]
     ELSE [e \in DOMAIN reactions |->
             IF e = emoji THEN splice(reacted, userIndex) ELSE reactions[e]]

ReactToMessage(groupId, messageId, username, emoji) ==
  /\ LET db == loadDatabase
         k == FindGroup(db.groups, groupId)
     IN IF k = 0
        THEN /\ res' = Error("reactToMessage", 404, "Group not found")
             /\ UNCHANGED <<users, groups, nextId>>
        ELSE LET m == FindMessage(db.groups[k].messages, messageId)
             IN IF m = 0
                THEN /\ res' = Error("reactToMessage", 404, "Message not found")
                     /\ UNCHANGED <<users, groups, nextId>>
                ELSE LET db2 == [db EXCEPT !.groups[k].messages[m].reactions =
                                              toggleReaction(@, emoji, username)]
                     IN /\ saveDatabase(db2)
                        /\ res' = Response("reactToMessage", 200, [success |-> TRUE,
                                                 message |-> db2.groups[k].messages[m]])
                        /\ UNCHANGED nextId

\* addReaction of chat.js when the server is not available: the same toggle
\* on the client's copy of the message, with includes and filter
addReactionLocal(reactions, emoji, username) ==
  LET reacted == IF emoji \in DOMAIN reactions THEN reactions[emoji] ELSE <<>>
      filtered == SelectSeq(reacted, LAMBDA name : name # username)
  IN IF includes(reacted, username)
     THEN IF Len(filtered) = 0
          THEN [e \in DOMAIN reactions \ {emoji} |-> reactions[e]]
          ELSE [e \in DOMAIN reactions |->
                  IF e = emoji THEN filtered ELSE reactions[e]]
     ELSE [e \in DOMAIN reactions \cup {emoji} |->
             IF e = emoji THEN Append(reacted, username) ELSE reactions[e]]

(***************************************************************************)
(* The clients of the hosted store                                         *)
(***************************************************************************)
\* No store call of client c is in flight
Idle(c) == client[c].pc = "idle"

\* firebase.js apiCreateGroup: addDoc puts the new document in the
\* collection, which holds one document at most here
apiCreateGroup(c) ==
  /\ Idle(c)
  /\ cloud = <<>>
  /\ cloud' = << [members |-> <<c>>, hangouts |-> <<>>] >>
  /\ UNCHANGED <<client, users, groups, nextId, res, disk>>

\* firebase.js apiJoinGroup up to its updateDoc: the snapshot of getDocs
\* holds the group and its members do not include the user
apiJoinGroup(c) ==
  /\ Idle(c)
  /\ cloud # <<>>
  /\ ~includes(cloud[1].members, c)
  /\ client' = [client EXCEPT ![c].pc = "arrayUnion"]
  /\ UNCHANGED <<cloud, users, groups, nextId, res, disk>>

\* updateDoc(groupDoc, {members: arrayUnion(username)}) takes effect, or is
\* rejected because the document is gone
arrayUnion(c) ==
  /\ client[c].pc = "arrayUnion"
  /\ cloud' = IF cloud = <<>> THEN cloud
              ELSE [cloud EXCEPT ![1].members = IF includes(@, c) THEN @ ELSE Append(@, c)]
  /\ client' = [client EXCEPT ![c].pc = "idle"]
  /\ UNCHANGED <<users, groups, nextId, res, disk>>

\* firebase.js apiLeaveGroup up to its deleteDoc or updateDoc: the snapshot of
\* getDoc exists, and the members left after the filter decide the call
apiLeaveGroup(c) ==
  /\ Idle(c)
  /\ cloud # <<>>
  /\ LET newMembers == SelectSeq(cloud[1].members, LAMBDA m : m # c)
     IN client' = [client EXCEPT ![c].pc = IF Len(newMembers) = 0 THEN "deleteDoc"
                                          ELSE "arrayRemove"]
  /\ UNCHANGED <<cloud, users, groups, nextId, res, disk>>

\* deleteDoc(groupDoc) takes effect
deleteDoc(c) ==
  /\ client[c].pc = "deleteDoc"
  /\ cloud' = <<>>
  /\ client' = [client EXCEPT ![c].pc = "idle"]
  /\ UNCHANGED <<users, groups, nextId, res, disk>>

\* updateDoc(groupDoc, {members: arrayRemove(username)}) takes effect, or is
\* rejected because the document is gone
arrayRemove(c) ==
  /\ client[c].pc = "arrayRemove"
  /\ cloud' = IF cloud = <<>> THEN cloud
              ELSE [cloud EXCEPT ![1].members = SelectSeq(@, LAMBDA m : m # c)]
  /\ client' = [client EXCEPT ![c].pc = "idle"]
  /\ UNCHANGED <<users, groups, nextId, res, disk>>

\* firebase.js openGroup: currentGroup = await apiGetGroup(groupId), for a
\* group of the user's list
openGroup(c) ==
  /\ Idle(c)
  /\ cloud # <<>>
  /\ includes(cloud[1].members, c)
  /\ client' = [client EXCEPT ![c].currentGroup = <<cloud[1]>>]
  /\ UNCHANGED <<cloud, users, groups, nextId, res, disk>>

\* main.js loadGroupsFromFirebase, then openGroup: currentGroup is the record
\* getDocs returned for a group the user is a member of
loadGroupsFromFirebase(c) ==
  /\ Idle(c)
  /\ cloud # <<>>
  /\ includes(cloud[1].members, c)
  /\ client' = [client EXCEPT ![c].currentGroup = <<cloud[1]>>]
  /\ UNCHANGED <<cloud, users, groups, nextId, res, disk>>

\* The hangout a client builds; the fields of the form play no part
ClientHangout(proposedBy) ==
  [id |-> generateId,
   proposedBy |-> proposedBy,
   responses |-> [u \in {proposedBy} |-> "going"]]

\* firebase.js proposeHangout up to its updateDoc: the new hangout is pushed
\* on the client's copy, and the copy's hangouts are handed to updateDoc
proposeHangout(c) ==
  /\ Idle(c)
  /\ client[c].currentGroup # <<>>
  /\ nextId <= MaxId
  /\ client' = [client EXCEPT ![c].currentGroup[1].hangouts = Append(@, ClientHangout(c)),
                              ![c].pc = "updateDoc"]
  /\ nextId' = nextId + 1
  /\ UNCHANGED <<cloud, users, groups, res, disk>>

\* Mutant: the store keeps the stored hangouts the written array lacks
updateDocFieldMerged(stored, written) ==
  SelectSeq(stored, LAMBDA h : ~includes(written, h)) \o written

\* updateDoc(groupDoc, {hangouts: ...}): the field becomes the written array
updateDocField(stored, written) == written

\* updateDoc(groupDoc, {hangouts: currentGroup.hangouts}) takes effect
updateDoc(c) ==
  /\ client[c].pc = "updateDoc"
  /\ cloud' = [cloud EXCEPT ![1].hangouts =
                  updateDocField(@, client[c].currentGroup[1].hangouts)]
  /\ client' = [client EXCEPT ![c].pc = "idle"]
  /\ UNCHANGED <<users, groups, nextId, res, disk>>

\* main.js proposeHangout up to its saveGroupToFirebase(currentGroup)
proposeHangoutMain(c) ==
  /\ Idle(c)
  /\ client[c].currentGroup # <<>>
  /\ nextId <= MaxId
  /\ client' = [client EXCEPT ![c].currentGroup[1].hangouts = Append(@, ClientHangout(c)),
                              ![c].pc = "setDoc"]
  /\ nextId' = nextId + 1
  /\ UNCHANGED <<cloud, users, groups, res, disk>>

\* main.js saveGroupToFirebase: setDoc(groupRef, group) takes effect, the
\* document becomes the client's record
saveGroupToFirebase(c) ==
  /\ client[c].pc = "setDoc"
  /\ cloud' = [cloud EXCEPT ![1] = client[c].currentGroup[1]]
  /\ client' = [client EXCEPT ![c].pc = "idle"]
  /\ UNCHANGED <<users, groups, nextId, res, disk>>

(***************************************************************************)
(* main.js: the page's objects                                             *)
(***************************************************************************)
\* The page of client c holds its group objects in heap, an object being
\* named by its position there: groups is the list of the objects of the
\* in-memory groups array, currentGroup is the object currentGroup refers to
\* (0 for null), localStorage is the text saveGroups wrote, loading tells
\* that the getDocs of a background loadGroupsFromFirebase is in flight.
NewPage ==
  [heap |-> <<>>, groups |-> <<>>, currentGroup |-> 0, localStorage |-> <<>>,
   loading |-> FALSE, pc |-> "idle"]

\* main.js initializeApp for a logged-in user, on a page just loaded:
\* groups = loadGroups() parses the saved text into new objects, currentGroup
\* is null, and loadGroupsFromFirebase() starts in the background
initializeApp(c) ==
  /\ client[c].page.pc = "idle"
  /\ ~client[c].page.loading
  /\ client' = [client EXCEPT ![c].page =
                  [NewPage EXCEPT !.heap = client[c].page.localStorage,
                                  !.groups = [k \in 1..Len(client[c].page.localStorage) |-> k],
                                  !.localStorage = client[c].page.localStorage,
                                  !.loading = TRUE]]
  /\ UNCHANGED <<cloud, users, groups, nextId, res, disk>>

\* main.js loadGroupsFromFirebase after its await getDocs: groups = [] and a
\* new object for each document the user is a member of, then
\* saveGroups(groups)
loadGroupsFromFirebaseResolved(c) ==
  /\ client[c].page.loading
  /\ LET page == client[c].page
         snapshot == IF cloud # <<>> /\ includes(cloud[1].members, c) THEN cloud ELSE <<>>
     IN client' = [client EXCEPT ![c].page =
                     [page EXCEPT !.heap = page.heap \o snapshot,
                                  !.groups = [k \in 1..Len(snapshot) |-> Len(page.heap) + k],
                                  !.localStorage = snapshot,
                                  !.loading = FALSE]]
  /\ UNCHANGED <<cloud, users, groups, nextId, res, disk>>

\* main.js openGroup: currentGroup = group, the object groups.find returned
openGroupPage(c) ==
  /\ client[c].page.pc = "idle"
  /\ client[c].page.groups # <<>>
  /\ client' = [client EXCEPT ![c].page.currentGroup = client[c].page.groups[1]]
  /\ UNCHANGED <<cloud, users, groups, nextId, res, disk>>

\* main.js proposeHangout up to its await: the hangout is pushed on the
\* hangouts of the object currentGroup refers to
proposeHangoutPage(c) ==
  /\ client[c].page.pc = "idle"
  /\ client[c].page.currentGroup # 0
  /\ nextId <= MaxId
  /\ client' = [client EXCEPT ![c].page.heap[client[c].page.currentGroup].hangouts =
                                Append(@, ClientHangout(c)),
                              ![c].page.pc = "setDoc"]
  /\ nextId' = nextId + 1
  /\ UNCHANGED <<cloud, users, groups, res, disk>>

\* main.js saveGroupToFirebase(currentGroup): setDoc writes the whole object
setDocPage(c) ==
  /\ client[c].page.pc = "setDoc"
  /\ cloud' = << client[c].page.heap[client[c].page.currentGroup] >>
  /\ client' = [client EXCEPT ![c].page.pc = "saveGroups"]
  /\ UNCHANGED <<users, groups, nextId, res, disk>>

\* main.js proposeHangout after its await: saveGroups(groups) writes the
\* objects of the groups array
saveGroupsPage(c) ==
  /\ client[c].page.pc = "saveGroups"
  /\ client' = [client EXCEPT ![c].page.localStorage =
                                [k \in 1..Len(client[c].page.groups) |->
                                   client[c].page.heap[client[c].page.groups[k]]],
                              ![c].page.pc = "idle"]
  /\ UNCHANGED <<cloud, users, groups, nextId, res, disk>>

(***************************************************************************)
(* The client of the server: chat.js                                       *)
(***************************************************************************)
\* loadGroupsFromServer, then openGroup on the first group of the list:
\* groups = serverGroups and currentGroup = group.  currentGroup is the
\* object of the groups list, so the client's copy of the group stands for
\* both, and for the cache saveGroups(groups) writes.
loadGroupsFromServer(c) ==
  /\ ListGroups(c)
  /\ res'.body.groups # <<>>
  /\ client' = [client EXCEPT ![c].currentGroup = <<res'.body.groups[1]>>]
  /\ UNCHANGED <<cloud, disk>>

\* The message sendMessage creates on the client; the client's generateId
\* gives a value the server never issues and the copy does not hold yet
LocalMessage(messages, text, sender) ==
  [id |-> 0 - (Len(messages) + 1),
   text |-> text,
   sender |-> sender,
   reactions |-> [e \in {} |-> <<>>]]

\* chat.js sendMessage.  outcome is "skipped" when isServerAvailable is
\* false, "unreachable" when the request throws before the server got it,
\* and "answered" when the server handled it: a success gives the client
\* result.messages, an error answer throws.  Whatever did not end in a
\* success falls through to the local creation.
sendMessage(c, text, outcome) ==
  /\ client[c].currentGroup # <<>>
  /\ trim(text) # <<>>
  /\ Len(client[c].currentGroup[1].messages) < MaxLocalMessages
  /\ LET currentGroup == client[c].currentGroup[1]
         fallback == [client EXCEPT ![c].currentGroup[1].messages =
                        Append(@, LocalMessage(@, trim(text), c))]
     IN IF outcome = "answered"
        THEN /\ SendMessage(currentGroup.id, trim(text), c)
             /\ client' = IF res'.status = 200
                          THEN [client EXCEPT ![c].currentGroup[1].messages =
                                                 res'.body.messages]
                          ELSE fallback
             /\ UNCHANGED <<cloud, disk>>
        ELSE /\ client' = fallback
             /\ UNCHANGED <<users, groups, nextId, res, cloud, disk>>

\* chat.js addReaction on a message of the client's copy, with the same
\* outcomes: a success gives the message result.message.reactions, anything
\* else falls through to the local toggle
addReaction(c, messageId, emoji, outcome) ==
  /\ client[c].currentGroup # <<>>
  /\ LET currentGroup == client[c].currentGroup[1]
         m == FindMessage(currentGroup.messages, messageId)
         fallback == [client EXCEPT ![c].currentGroup[1].messages[m].reactions =
                        addReactionLocal(@, emoji, c)]
     IN /\ m # 0
        /\ IF outcome = "answered"
           THEN /\ ReactToMessage(currentGroup.id, messageId, c, emoji)
                /\ client' = IF res'.status = 200
                             THEN [client EXCEPT
                                     ![c].currentGroup[1].messages[m].reactions =
                                       res'.body.message.reactions]
                             ELSE fallback
                /\ UNCHANGED <<cloud, disk>>
           ELSE /\ client' = fallback
                /\ UNCHANGED <<users, groups, nextId, res, cloud, disk>>

(***************************************************************************)
(* Specifications                                                          *)
(***************************************************************************)
\* Usernames sent to the group and hangout routes, and the users of the
\* clients; <<>> is a missing one
Usernames == { <<"a">>, <<"b">> }

Init ==
  /\ users = <<>>
  /\ groups = <<>>
  /\ nextId = 1
  /\ res = Response("none", 0, <<>>)
  /\ cloud = <<>>
  /\ disk = "ok"
  /\ client = [c \in Usernames |-> [pc |-> "idle", currentGroup |-> <<>>, page |-> NewPage]]

\* Usernames sent to the login route
LoginNames ==
  { <<>>, <<" ">>, <<"a">>, <<"A">>, <<" ", "a">>, <<"a", " ">>,
    <<"a", "b">>, <<"A", "b">>, <<"a", "B">>, <<"b">> }

NextUsers ==
  \/ /\ \E username \in LoginNames : Login(username)
     /\ UNCHANGED storeVars

SpecUsers == Init /\ [][NextUsers]_vars

UsernamesOrNone == Usernames \cup { <<>> }

GroupNames == { <<"g">>, <<" ">>, <<>> }

\* Outcomes of the seven random draws of generateGroupCode
CodeDraws == { <<0, 0, 0, 0, 0, 0, 0>>, <<1, 0, 0, 0, 0, 0, 0>> }

\* Codes sent to the join route: a generated code as it is, another one in
\* lower case, a code no group has, and a missing code
JoinCodes ==
  { <<"A", "A", "A", "-", "0", "0", "0", "0">>,
    <<"b", "a", "a", "-", "0", "0", "0", "0">>,
    <<"Z", "Z", "Z", "-", "9", "9", "9", "9">>,
    <<>> }

\* Ids named in a path: every id issued so far and one that never is (0)
PathIds == 0..(nextId - 1)

NextGroups ==
  \/ /\ \E username \in UsernamesOrNone : ListGroups(username)
     /\ UNCHANGED storeVars
  \/ /\ \E id \in PathIds : GetGroup(id)
     /\ UNCHANGED storeVars
  \/ /\ \E name \in GroupNames, createdBy \in UsernamesOrNone, r \in CodeDraws :
          CreateGroup(name, createdBy, r)
     /\ UNCHANGED storeVars
  \/ /\ \E code \in JoinCodes, username \in UsernamesOrNone : JoinGroup(code, username)
     /\ UNCHANGED storeVars
  \/ /\ \E id \in PathIds, username \in Usernames : LeaveGroup(id, username)
     /\ UNCHANGED storeVars

SpecGroups == Init /\ [][NextGroups]_vars

ResponseValues == {"going", "notGoing", "bogus"}

\* Ids named in a hangout path: the ids of the stored groups, or of the stored
\* hangouts, and one that names nothing (0)
GroupPathIds == { groups[i].id : i \in 1..Len(groups) } \cup {0}

HangoutPathIds ==
  UNION { { groups[i].hangouts[j].id : j \in 1..Len(groups[i].hangouts) } :
          i \in 1..Len(groups) } \cup {0}

NextHangouts ==
  \/ /\ CreateGroup(<<"g">>, <<"a">>, <<0, 0, 0, 0, 0, 0, 0>>)
     /\ UNCHANGED storeVars
  \/ /\ \E username \in Usernames :
          JoinGroup(<<"a", "a", "a", "-", "0", "0", "0", "0">>, username)
     /\ UNCHANGED storeVars
  \/ /\ \E id \in GroupPathIds, username \in Usernames : LeaveGroup(id, username)
     /\ UNCHANGED storeVars
  \/ /\ \E id \in GroupPathIds, title \in { <<"t">>, <<>> }, proposedBy \in Usernames :
          ProposeHangout(id, title, <<"d">>, <<"h">>, <<"l">>, <<>>, proposedBy)
     /\ UNCHANGED storeVars
  \/ /\ \E groupId \in GroupPathIds, hangoutId \in HangoutPathIds, username \in Usernames,
           response \in ResponseValues :
          RespondToHangout(groupId, hangoutId, username, response)
     /\ UNCHANGED storeVars
  \/ /\ \E groupId \in GroupPathIds, hangoutId \in HangoutPathIds,
           username \in UsernamesOrNone :
          DeleteHangout(groupId, hangoutId, username)
     /\ UNCHANGED storeVars

SpecHangouts == Init /\ [][NextHangouts]_vars

\* Emoji sent to the react route
Emojis == {"like", "love"}

\* Texts sent to the send route: a text, a text of spaces, a missing one
MessageTexts == { <<"m">>, <<" ">>, <<>> }

\* Ids named in a message path: the ids of the stored messages and one that
\* names nothing (0)
MessagePathIds ==
  UNION { { groups[i].messages[j].id : j \in 1..Len(groups[i].messages) } :
          i \in 1..Len(groups) } \cup {0}

NextChat ==
  \/ /\ CreateGroup(<<"g">>, <<"a">>, <<0, 0, 0, 0, 0, 0, 0>>)
     /\ UNCHANGED storeVars
  \/ /\ \E id \in GroupPathIds : ListMessages(id)
     /\ UNCHANGED storeVars
  \/ /\ \E id \in GroupPathIds, text \in MessageTexts, sender \in Usernames :
          SendMessage(id, text, sender)
     /\ UNCHANGED storeVars
  \/ /\ \E groupId \in GroupPathIds, messageId \in MessagePathIds :
          ReactToMessage(groupId, messageId, <<"a">>, "like")
     /\ UNCHANGED storeVars

SpecChat == Init /\ [][NextChat]_vars

\* The reactions of two users with two emoji to the messages of one sender
NextReact ==
  \/ /\ CreateGroup(<<"g">>, <<"a">>, <<0, 0, 0, 0, 0, 0, 0>>)
     /\ UNCHANGED storeVars
  \/ /\ \E id \in GroupPathIds :
          /\ \A i \in 1..Len(groups) :
               groups[i].id = id => Len(groups[i].messages) < MaxMessages
          /\ SendMessage(id, <<"m">>, <<"a">>)
     /\ UNCHANGED storeVars
  \/ /\ \E groupId \in GroupPathIds, messageId \in MessagePathIds, username \in Usernames,
           emoji \in Emojis :
          ReactToMessage(groupId, messageId, username, emoji)
     /\ UNCHANGED storeVars

SpecReact == Init /\ [][NextReact]_vars

\* Values sent as the response of a Respond: two of the enum and one that
\* is not in it
RespondValues == {"going", "maybe", "bogus"}

\* Two members answering, again and again, the hangouts one of them proposed
\* Leaves of groups that hold hangouts, responses, messages and reactions
NextLeave ==
  \/ /\ Login(<<"a">>)
     /\ UNCHANGED storeVars
  \/ /\ \E r \in CodeDraws : CreateGroup(<<"g">>, <<"a">>, r)
     /\ UNCHANGED storeVars
  \/ /\ JoinGroup(<<"A", "A", "A", "-", "0", "0", "0", "0">>, <<"b">>)
     /\ UNCHANGED storeVars
  \/ /\ \E id \in GroupPathIds, username \in Usernames : LeaveGroup(id, username)
     /\ UNCHANGED storeVars
  \/ /\ \E id \in GroupPathIds :
          /\ \A i \in 1..Len(groups) :
               groups[i].id = id => Len(groups[i].hangouts) < MaxHangouts
          /\ ProposeHangout(id, <<"t">>, <<"d">>, <<"h">>, <<"l">>, <<>>, <<"a">>)
     /\ UNCHANGED storeVars
  \/ /\ \E groupId \in GroupPathIds, hangoutId \in HangoutPathIds :
          RespondToHangout(groupId, hangoutId, <<"b">>, "going")
     /\ UNCHANGED storeVars
  \/ /\ \E id \in GroupPathIds :
          /\ \A i \in 1..Len(groups) :
               groups[i].id = id => Len(groups[i].messages) < MaxMessages
          /\ SendMessage(id, <<"m">>, <<"b">>)
     /\ UNCHANGED storeVars
  \/ /\ \E groupId \in GroupPathIds, messageId \in MessagePathIds :
          ReactToMessage(groupId, messageId, <<"b">>, "like")
     /\ UNCHANGED storeVars

SpecLeave == Init /\ [][NextLeave]_vars

\* States of the file system: working, the read of DATA_FILE throws, the
\* write of DATA_FILE throws
DiskStates == {"ok", "readFails", "writeFails"}

\* The server on a file system that can fail
NextDisk ==
  \/ \E state \in DiskStates : DiskFault(state)
  \/ /\ \E username \in Usernames : Login(username)
     /\ UNCHANGED storeVars
  \/ /\ CreateGroup(<<"g">>, <<"a">>, <<0, 0, 0, 0, 0, 0, 0>>)
     /\ UNCHANGED storeVars
  \/ /\ \E username \in Usernames :
          JoinGroup(<<"A", "A", "A", "-", "0", "0", "0", "0">>, username)
     /\ UNCHANGED storeVars
  \/ /\ \E id \in PathIds :
          /\ \A i \in 1..Len(groups) :
               groups[i].id = id => Len(groups[i].messages) < MaxMessages
          /\ SendMessage(id, <<"m">>, <<"a">>)
     /\ UNCHANGED storeVars

SpecDisk == Init /\ [][NextDisk]_vars

NextRespond ==
  \/ /\ CreateGroup(<<"g">>, <<"a">>, <<0, 0, 0, 0, 0, 0, 0>>)
     /\ UNCHANGED storeVars
  \/ /\ JoinGroup(<<"A", "A", "A", "-", "0", "0", "0", "0">>, <<"b">>)
     /\ UNCHANGED storeVars
  \/ /\ \E id \in GroupPathIds :
          /\ \A i \in 1..Len(groups) :
               groups[i].id = id => Len(groups[i].hangouts) < MaxHangouts
          /\ ProposeHangout(id, <<"t">>, <<"d">>, <<"h">>, <<"l">>, <<>>, <<"a">>)
     /\ UNCHANGED storeVars
  \/ /\ \E groupId \in GroupPathIds, hangoutId \in HangoutPathIds, username \in Usernames,
           response \in RespondValues :
          RespondToHangout(groupId, hangoutId, username, response)
     /\ UNCHANGED storeVars

SpecRespond == Init /\ [][NextRespond]_vars

\* Fields sent to the propose route: a text, a text of spaces, a missing one
ProposeTexts == { <<"t">>, <<" ">>, <<>> }

\* Dates and times sent to the propose route: one, or a missing one
ProposeDates == { <<"d">>, <<>> }

\* Proposals with every kind of title, date, time, location and description
NextPropose ==
  \/ /\ CreateGroup(<<"g">>, <<"a">>, <<0, 0, 0, 0, 0, 0, 0>>)
     /\ UNCHANGED storeVars
  \/ /\ \E id \in GroupPathIds, title \in ProposeTexts, date \in ProposeDates,
           time \in ProposeDates, location \in ProposeTexts, description \in ProposeTexts :
          ProposeHangout(id, title, date, time, location, description, <<"a">>)
     /\ UNCHANGED storeVars
  \/ /\ \E groupId \in GroupPathIds, hangoutId \in HangoutPathIds :
          DeleteHangout(groupId, hangoutId, <<"a">>)
     /\ UNCHANGED storeVars

SpecPropose == Init /\ [][NextPropose]_vars

\* Every route that addresses a group, a hangout or a message by id, with
\* one user, each id issued so far or none (0) in each place of a path, and
\* bodies that pass or fail validation
NextServer ==
  \/ /\ CreateGroup(<<"g">>, <<"a">>, <<0, 0, 0, 0, 0, 0, 0>>)
     /\ UNCHANGED storeVars
  \/ /\ \E id \in PathIds : GetGroup(id)
     /\ UNCHANGED storeVars
  \/ /\ \E id \in PathIds : LeaveGroup(id, <<"a">>)
     /\ UNCHANGED storeVars
  \/ /\ \E id \in PathIds, title \in { <<"t">>, <<>> } :
          ProposeHangout(id, title, <<"d">>, <<"h">>, <<"l">>, <<>>, <<"a">>)
     /\ UNCHANGED storeVars
  \/ /\ \E groupId \in PathIds, hangoutId \in PathIds, response \in {"notGoing", "bogus"} :
          RespondToHangout(groupId, hangoutId, <<"a">>, response)
     /\ UNCHANGED storeVars
  \/ /\ \E groupId \in PathIds, hangoutId \in PathIds :
          DeleteHangout(groupId, hangoutId, <<>>)
     /\ UNCHANGED storeVars
  \/ /\ \E id \in PathIds : ListMessages(id)
     /\ UNCHANGED storeVars
  \/ /\ \E id \in PathIds, text \in { <<"m">>, <<>> } : SendMessage(id, text, <<"a">>)
     /\ UNCHANGED storeVars
  \/ /\ \E groupId \in PathIds, messageId \in PathIds :
          ReactToMessage(groupId, messageId, <<"a">>, "like")
     /\ UNCHANGED storeVars

SpecServer == Init /\ [][NextServer]_vars

\* What becomes of a client's request: not sent (isServerAvailable is
\* false), lost before the server, or handled by the server
Outcomes == {"skipped", "unreachable", "answered"}

\* The message ids of a client's copy of its group
LocalMessageIds(c) ==
  IF client[c].currentGroup = <<>>
  THEN {}
  ELSE { client[c].currentGroup[1].messages[j].id :
           j \in 1..Len(client[c].currentGroup[1].messages) }

\* One user chatting through chat.js, with requests that fail or not, while
\* the group may leave the server's document
NextChatClient ==
  \/ /\ CreateGroup(<<"g">>, <<"a">>, <<0, 0, 0, 0, 0, 0, 0>>)
     /\ UNCHANGED storeVars
  \/ /\ \E id \in GroupPathIds : LeaveGroup(id, <<"a">>)
     /\ UNCHANGED storeVars
  \/ loadGroupsFromServer(<<"a">>)
  \/ \E text \in MessageTexts, outcome \in Outcomes : sendMessage(<<"a">>, text, outcome)
  \/ \E messageId \in LocalMessageIds(<<"a">>), outcome \in Outcomes :
       addReaction(<<"a">>, messageId, "like", outcome)

SpecChatClient == Init /\ [][NextChatClient]_vars

\* Two clients of the hosted store, each opening the group, proposing and
\* saving in any order
NextStore ==
  \/ \E c \in Usernames : apiCreateGroup(c)
  \/ \E c \in Usernames : apiJoinGroup(c)
  \/ \E c \in Usernames : arrayUnion(c)
  \/ \E c \in Usernames : openGroup(c)
  \/ \E c \in Usernames : loadGroupsFromFirebase(c)
  \/ \E c \in Usernames : proposeHangout(c)
  \/ \E c \in Usernames : updateDoc(c)
  \/ \E c \in Usernames : proposeHangoutMain(c)
  \/ \E c \in Usernames : saveGroupToFirebase(c)

SpecStore == Init /\ [][NextStore]_vars

\* Two clients of the hosted store joining and leaving the group in any order
NextStoreLeave ==
  \/ \E c \in Usernames : apiCreateGroup(c)
  \/ \E c \in Usernames : apiJoinGroup(c)
  \/ \E c \in Usernames : arrayUnion(c)
  \/ \E c \in Usernames : openGroup(c)
  \/ \E c \in Usernames : apiLeaveGroup(c)
  \/ \E c \in Usernames : deleteDoc(c)
  \/ \E c \in Usernames : arrayRemove(c)

SpecStoreLeave == Init /\ [][NextStoreLeave]_vars

\* The page of one client over the hosted store: loads, a background load
\* resolving at any moment, and hangouts proposed in the group opened
NextPage ==
  \/ apiCreateGroup(<<"a">>)
  \/ initializeApp(<<"a">>)
  \/ loadGroupsFromFirebaseResolved(<<"a">>)
  \/ openGroupPage(<<"a">>)
  \/ proposeHangoutPage(<<"a">>)
  \/ setDocPage(<<"a">>)
  \/ saveGroupsPage(<<"a">>)

SpecPage == Init /\ [][NextPage]_vars

(***************************************************************************)
(* Properties                                                              *)
(***************************************************************************)
Range(arr) == { arr[i] : i \in 1..Len(arr) }

Last(arr) == arr[Len(arr)]

NoDuplicates(arr) == \A i, j \in 1..Len(arr) : arr[i] = arr[j] => i = j

GroupIds(gs) == { gs[i].id : i \in 1..Len(gs) }

\* The stored group an id names
GroupOf(gs, id) == gs[CHOOSE i \in 1..Len(gs) : gs[i].id = id]

MembersOf(gs) == [i \in 1..Len(gs) |-> gs[i].members]

\* C1: Delete removes the hangout only when the requester is its proposedBy;
\* for every other requester, a missing one included, it answers 403 and the
\* hangout stays in the group's list.
C1_DeleteOnlyByProposer ==
  [][\A groupId \in GroupPathIds, hangoutId \in HangoutPathIds,
        username \in UsernamesOrNone :
       (/\ res'.route = "deleteHangout"
        /\ DeleteHangout(groupId, hangoutId, username)
        /\ groupId \in GroupIds(groups)
        /\ \E h \in Range(GroupOf(groups, groupId).hangouts) : h.id = hangoutId)
       => LET hangouts == GroupOf(groups, groupId).hangouts
              hangout == CHOOSE h \in Range(hangouts) : h.id = hangoutId
          IN IF hangout.proposedBy = username
             THEN /\ res'.status = 200
                  /\ hangout \notin Range(GroupOf(groups', groupId).hangouts)
             ELSE /\ res'.status = 403
                  /\ GroupOf(groups', groupId).hangouts = hangouts]_vars

\* C2: no two stored groups have the same code.
C2_GroupCodesUnique ==
  \A i, j \in 1..Len(groups) : groups[i].code = groups[j].code => i = j

\* C3: a login with a username, in any casing, right after a login with that
\* username finds the user the first one returned: it would return the same
\* id and add no user record.
C3_LoginTwiceSameId ==
  [][\A username \in LoginNames :
       (Login(username) /\ res'.status = 200)
       => \A again \in LoginNames :
            toLowerCase(again) = toLowerCase(username)
            => /\ LoginLookup(users', again) # 0
               /\ users'[LoginLookup(users', again)].id = res'.body.user.id]_vars

\* C4: no two stored users have usernames that are equal ignoring case.
C4_UsernamesUniqueIgnoringCase ==
  \A i, j \in 1..Len(users) :
    toLowerCase(users[i].username) = toLowerCase(users[j].username) => i = j

\* C5: a Join (with a code and a username) whose code matches no stored group,
\* compared ignoring case, answers 404; a Join by a username already in the
\* matched group's member list answers 400 "already in this group"; neither
\* changes a member list.  Any other Join appends the username at the end of
\* the matched group's member list and changes nothing else.  The matched
\* group is the first stored group with that code.
C5_Join ==
  [][\A code \in JoinCodes \ {<<>>}, username \in Usernames :
       (res'.route = "joinGroup" /\ JoinGroup(code, username))
       => LET matching == { i \in 1..Len(groups) :
                              toLowerCase(groups[i].code) = toLowerCase(code) }
          IN IF matching = {}
             THEN /\ res'.status = 404
                  /\ MembersOf(groups') = MembersOf(groups)
             ELSE LET k == CHOOSE i \in matching : \A j \in matching : i <= j
                  IN IF username \in Range(groups[k].members)
                     THEN /\ res'.status = 400
                          /\ res'.body.error = "You are already in this group"
                          /\ MembersOf(groups') = MembersOf(groups)
                     ELSE /\ res'.status = 200
                          /\ groups' = [groups EXCEPT ![k].members =
                                          groups[k].members \o <<username>>]]_vars

\* A Join was answered 404 while an earlier Join had appended a member
C5_Witness ==
  /\ res.route = "joinGroup"
  /\ res.status = 404
  /\ \E i \in 1..Len(groups) : Len(groups[i].members) = 2

\* C6: each username appears at most once in each group's member list.
C6_MembersUnique == \A i \in 1..Len(groups) : NoDuplicates(groups[i].members)

\* A Join by a member of a two-member group was refused
C6_Witness ==
  /\ res.route = "joinGroup"
  /\ res.status = 400
  /\ res.body.error = "You are already in this group"
  /\ \E i \in 1..Len(groups) : Len(groups[i].members) = 2

\* An id that was issued and names no stored group
Gone(gs, id) == id \in 1..(nextId - 1) /\ id \notin GroupIds(gs)

\* C7: when the only remaining member of a group leaves, the answer reports
\* deleted = true and the group is removed; when other members remain it
\* reports deleted = false and the group persists with only the leaver removed.
\* A removed group stays removed: every later Get of its id answers 404 and no
\* later listing contains it.
C7_LeaveLastMember ==
  [][/\ \A id \in PathIds, username \in Usernames :
          (/\ res'.route = "leaveGroup"
           /\ id \in GroupIds(groups)
           /\ LeaveGroup(id, username))
          => LET group == GroupOf(groups, id)
             IN IF group.members = <<username>>
                THEN /\ res'.body.deleted = TRUE
                     /\ id \notin GroupIds(groups')
                     /\ Len(groups') = Len(groups) - 1
                ELSE /\ res'.body.deleted = FALSE
                     /\ id \in GroupIds(groups')
                     /\ Range(GroupOf(groups', id).members) =
                          Range(group.members) \ {username}
                     /\ [GroupOf(groups', id) EXCEPT !.members = group.members] = group
                     /\ Len(groups') = Len(groups)
     /\ \A id \in PathIds : Gone(groups, id) => id \notin GroupIds(groups')
     /\ \A id \in PathIds :
          (res'.route = "getGroup" /\ Gone(groups, id) /\ GetGroup(id))
          => res'.status = 404
     /\ \A username \in UsernamesOrNone :
          (res'.route = "listGroups" /\ ListGroups(username))
          => \A id \in PathIds : Gone(groups, id) => id \notin GroupIds(res'.body.groups)
    ]_vars

\* The last member of one group left while another group, of two members, stays
C7_Witness ==
  /\ res.route = "leaveGroup"
  /\ res.status = 200
  /\ res.body.deleted = TRUE
  /\ \E i \in 1..Len(groups) : Len(groups[i].members) = 2

\* C8: every stored group has at least one member.
C8_GroupsHaveMembers == \A i \in 1..Len(groups) : Len(groups[i].members) >= 1

\* A Leave emptied the only stored group, and the document holds no group
C8_Witness ==
  /\ res.route = "leaveGroup"
  /\ res.status = 200
  /\ res.body.deleted = TRUE
  /\ groups = <<>>

\* C9: right after a successful Propose the new hangout, the last of its
\* group's list, has exactly one response: its proposedBy, "going".
C9_ProposerGoing ==
  (res.route = "proposeHangout" /\ res.status = 200)
  => /\ \E i \in 1..Len(groups) :
          /\ groups[i].hangouts = res.body.hangouts
          /\ Last(groups[i].hangouts) = res.body.hangout
     /\ DOMAIN res.body.hangout.responses = {res.body.hangout.proposedBy}
     /\ res.body.hangout.responses[res.body.hangout.proposedBy] = "going"

\* A user who is not a member of the group proposed a hangout in it
C9_Witness ==
  /\ res.route = "proposeHangout"
  /\ res.status = 200
  /\ \E i \in 1..Len(groups) :
       /\ groups[i].hangouts = res.body.hangouts
       /\ res.body.hangout.proposedBy \notin Range(groups[i].members)

\* C10: the number of entries of each hangout's responses map does not exceed
\* the current member count of its group (the map has one entry per username).
C10_ResponsesWithinMembers ==
  \A i \in 1..Len(groups) : \A j \in 1..Len(groups[i].hangouts) :
    Cardinality(DOMAIN groups[i].hangouts[j].responses) <= Len(groups[i].members)

\* The stored message a group id and a message id name
MessageOf(gs, groupId, messageId) ==
  LET messages == GroupOf(gs, groupId).messages
  IN messages[CHOOSE j \in 1..Len(messages) : messages[j].id = messageId]

\* A reactions map as a mapping from emoji to the set of usernames, an
\* absent key being the empty set
ReactionSets(reactions) ==
  [e \in Emojis |-> IF e \in DOMAIN reactions THEN Range(reactions[e]) ELSE {}]

\* C11: after a React on a message by a username with an emoji, the same React
\* once more gives back the reaction state the message had before the first
\* one, as a mapping from emoji to set of usernames; the toggle the client
\* falls back to without a server does the same.
C11_ReactTwiceRestores ==
  [][\A groupId \in GroupPathIds, messageId \in MessagePathIds, username \in Usernames,
        emoji \in Emojis :
       (/\ res'.route = "reactToMessage"
        /\ res'.status = 200
        /\ ReactToMessage(groupId, messageId, username, emoji))
       => LET before == MessageOf(groups, groupId, messageId).reactions
              once == MessageOf(groups', groupId, messageId).reactions
          IN /\ once = res'.body.message.reactions
             /\ ReactionSets(once) # ReactionSets(before)
             /\ ReactionSets(toggleReaction(once, emoji, username)) = ReactionSets(before)
             /\ ReactionSets(addReactionLocal(addReactionLocal(before, emoji, username),
                                              emoji, username)) = ReactionSets(before)
    ]_vars

\* A React took the last reaction of a message away: its map is empty again,
\* as it was when the message was sent
C11_Witness ==
  /\ res.route = "reactToMessage"
  /\ res.status = 200
  /\ DOMAIN res.body.message.reactions = {}

\* The status the specification derives from a responses map and a member
\* count: strictly more than half going, else strictly more than half not going
DerivedStatus(responses, memberCount) ==
  LET going == { u \in DOMAIN responses : responses[u] = "going" }
      notGoing == { u \in DOMAIN responses : responses[u] = "notGoing" }
  IN IF Cardinality(going) + Cardinality(going) > memberCount THEN "confirmed"
     ELSE IF Cardinality(notGoing) + Cardinality(notGoing) > memberCount THEN "cancelled"
     ELSE "pending"

\* C12: for every stored hangout and the member count of its group, each
\* getHangoutStatus of the repository (helpers, firebase.js, main.js) gives
\* the derived status: confirmed when more than half are going, else
\* cancelled when more than half are not going, else pending.
C12_StatusImplementationsAgree ==
  \A i \in 1..Len(groups) : \A j \in 1..Len(groups[i].hangouts) :
    LET hangout == groups[i].hangouts[j]
        memberCount == Len(groups[i].members)
        status == DerivedStatus(hangout.responses, memberCount)
    IN /\ getHangoutStatus(hangout, memberCount) = status
       /\ getHangoutStatusFirebase(hangout, memberCount) = status
       /\ getHangoutStatusMain(hangout, memberCount) = status

\* The three implementations applied to a hangout of a group
StatusesOf(hangout, memberCount) ==
  { getHangoutStatus(hangout, memberCount),
    getHangoutStatusFirebase(hangout, memberCount),
    getHangoutStatusMain(hangout, memberCount) }

\* C13: in a group of exactly two members, the hangout one of them proposed
\* has status pending right after the Propose, and a hangout both members
\* are going to has status confirmed right after the Respond that made it so.
C13_TwoMemberGroupStatus ==
  \A i \in 1..Len(groups) :
    Len(groups[i].members) = 2
    => /\ (/\ res.route = "proposeHangout"
            /\ res.status = 200
            /\ groups[i].hangouts = res.body.hangouts
            /\ res.body.hangout.proposedBy \in Range(groups[i].members))
           => StatusesOf(res.body.hangout, 2) = {"pending"}
       /\ (/\ res.route = "respondToHangout"
            /\ res.status = 200
            /\ res.body.hangout \in Range(groups[i].hangouts)
            /\ \A u \in Range(groups[i].members) :
                 /\ u \in DOMAIN res.body.hangout.responses
                 /\ res.body.hangout.responses[u] = "going")
           => StatusesOf(res.body.hangout, 2) = {"confirmed"}

\* The ids of the hangouts, and of the messages, of the group an id names;
\* none when no stored group has the id
HangoutIdsOf(gs, groupId) ==
  UNION { { gs[i].hangouts[j].id : j \in 1..Len(gs[i].hangouts) } :
          i \in { k \in 1..Len(gs) : gs[k].id = groupId } }

MessageIdsOf(gs, groupId) ==
  UNION { { gs[i].messages[j].id : j \in 1..Len(gs[i].messages) } :
          i \in { k \in 1..Len(gs) : gs[k].id = groupId } }

\* What a step does when it serves a request that addresses a group, hangout
\* or message the document does not hold: users and groups stay as they
\* are, and the answer is 404; when bodyFirst, a Propose, Respond or Send
\* whose body fails validation is answered 400 instead.
MissingTargetRefused(bodyFirst) ==
  LET Refused(valid) ==
        /\ res'.status = IF bodyFirst /\ ~valid THEN 400 ELSE 404
        /\ users' = users
        /\ groups' = groups
  IN /\ \A id \in PathIds \ GroupIds(groups) :
          /\ (res'.route = "getGroup" /\ GetGroup(id)) => Refused(TRUE)
          /\ (res'.route = "leaveGroup" /\ LeaveGroup(id, <<"a">>)) => Refused(TRUE)
          /\ (res'.route = "listMessages" /\ ListMessages(id)) => Refused(TRUE)
          /\ \A title \in { <<"t">>, <<>> } :
               (/\ res'.route = "proposeHangout"
                /\ ProposeHangout(id, title, <<"d">>, <<"h">>, <<"l">>, <<>>, <<"a">>))
               => Refused(title # <<>>)
          /\ \A text \in { <<"m">>, <<>> } :
               (res'.route = "sendMessage" /\ SendMessage(id, text, <<"a">>))
               => Refused(text # <<>>)
     /\ \A groupId \in PathIds : \A hangoutId \in PathIds \ HangoutIdsOf(groups, groupId) :
          /\ \A response \in {"notGoing", "bogus"} :
               (/\ res'.route = "respondToHangout"
                /\ RespondToHangout(groupId, hangoutId, <<"a">>, response))
               => Refused(response \in {"going", "maybe", "notGoing"})
          /\ (res'.route = "deleteHangout" /\ DeleteHangout(groupId, hangoutId, <<>>))
             => Refused(TRUE)
     /\ \A groupId \in PathIds : \A messageId \in PathIds \ MessageIdsOf(groups, groupId) :
          (/\ res'.route = "reactToMessage"
           /\ ReactToMessage(groupId, messageId, <<"a">>, "like"))
          => Refused(TRUE)

\* C14 as stated: every Get, Leave, Propose, Respond, Delete, list messages,
\* Send and React that addresses a group, hangout or message id the document
\* does not hold is answered 404 and leaves the document unchanged.
C14_MissingTargetIs404 == [][MissingTargetRefused(FALSE)]_vars

\* C14 amended: such a request leaves the document unchanged and is answered
\* 404, except that a Propose, Respond or Send whose body fails validation is
\* answered 400, the body being validated before the id is looked up.
C14_MissingTargetRefused == [][MissingTargetRefused(TRUE)]_vars

\* A Respond with an invalid value was answered 400 when every group had
\* left the document: the group it addressed was not there
C14_Witness ==
  /\ res.route = "respondToHangout"
  /\ res.status = 400
  /\ groups = <<>>
  /\ nextId > 1

\* C15: the listing for a username holds exactly the stored groups whose
\* member list contains the username, in stored order (the k-th listed group
\* is the k-th stored group of the user), and the request changes neither the
\* users nor the groups of the document.
C15_ListGroupsOfMember ==
  [][\A username \in Usernames :
       (res'.route = "listGroups" /\ ListGroups(username))
       => LET listed == res'.body.groups
              mine == { i \in 1..Len(groups) : username \in Range(groups[i].members) }
          IN /\ res'.status = 200
             /\ Len(listed) = Cardinality(mine)
             /\ \A k \in 1..Len(listed) :
                  listed[k] = groups[CHOOSE i \in mine :
                                       Cardinality({ j \in mine : j <= i }) = k]
             /\ users' = users
             /\ groups' = groups]_vars

\* A listing gave one of the two stored groups: the other was filtered out
C15_Witness ==
  /\ res.route = "listGroups"
  /\ res.status = 200
  /\ Len(groups) = 2
  /\ Len(res.body.groups) = 1

\* C16: a Respond whose value is not going, maybe or notGoing is answered 400
\* and changes nothing; a Respond with one of the three to a stored hangout
\* sets the entry of its username to the value, whatever it was before, and
\* leaves every other entry and everything else as it was; so every value
\* stored in a responses map is one of the three.
C16_RespondEnum ==
  [][/\ \A groupId \in GroupPathIds, hangoutId \in HangoutPathIds, username \in Usernames,
           response \in RespondValues :
          (/\ res'.route = "respondToHangout"
           /\ RespondToHangout(groupId, hangoutId, username, response))
          => IF response \notin {"going", "maybe", "notGoing"}
             THEN /\ res'.status = 400
                  /\ users' = users
                  /\ groups' = groups
             ELSE hangoutId \in HangoutIdsOf(groups, groupId)
                  => LET k == CHOOSE i \in 1..Len(groups) : groups[i].id = groupId
                         h == CHOOSE j \in 1..Len(groups[k].hangouts) :
                                groups[k].hangouts[j].id = hangoutId
                         before == groups[k].hangouts[h].responses
                         after == groups'[k].hangouts[h].responses
                     IN /\ res'.status = 200
                        /\ DOMAIN after = DOMAIN before \cup {username}
                        /\ after[username] = response
                        /\ \A u \in DOMAIN before \ {username} : after[u] = before[u]
                        /\ groups' = [groups EXCEPT ![k].hangouts[h].responses = after]
                        /\ users' = users
     /\ \A i \in 1..Len(groups') : \A j \in 1..Len(groups'[i].hangouts) :
          \A u \in DOMAIN groups'[i].hangouts[j].responses :
            groups'[i].hangouts[j].responses[u] \in {"going", "maybe", "notGoing"}
    ]_vars

\* After a Respond the proposer, who was going, has answered maybe, and the
\* other user is going
C16_Witness ==
  /\ res.route = "respondToHangout"
  /\ res.status = 200
  /\ res.body.hangout.responses = [u \in Usernames |->
                                     IF u = res.body.hangout.proposedBy
                                     THEN "maybe" ELSE "going"]

\* C17: a Propose whose title, date, time or location is empty, a title or
\* location of spaces only included, is answered 400 and stores nothing; every
\* stored hangout has a non-empty title, date, time and location; a Propose
\* without description stores the empty string as description.
C17_ProposeRequiredFields ==
  [][/\ \A id \in GroupPathIds, title \in ProposeTexts, date \in ProposeDates,
           time \in ProposeDates, location \in ProposeTexts, description \in ProposeTexts :
          (/\ res'.route = "proposeHangout"
           /\ ProposeHangout(id, title, date, time, location, description, <<"a">>))
          => /\ (\/ trim(title) = <<>>
                 \/ date = <<>>
                 \/ time = <<>>
                 \/ trim(location) = <<>>)
                => /\ res'.status = 400
                   /\ users' = users
                   /\ groups' = groups
             /\ (res'.status = 200 /\ description = <<>>)
                => res'.body.hangout.description = <<>>
     /\ \A i \in 1..Len(groups') : \A j \in 1..Len(groups'[i].hangouts) :
          LET hangout == groups'[i].hangouts[j]
          IN /\ hangout.title # <<>>
             /\ hangout.date # <<>>
             /\ hangout.time # <<>>
             /\ hangout.location # <<>>
    ]_vars

\* C18: a Send whose text is empty or only spaces is answered 400 and changes
\* nothing; any other Send to a stored group appends exactly one message,
\* with an empty reactions map, at the end of that group's message list,
\* changes nothing else, and returns the group's whole list after the append.
C18_SendAppendsOne ==
  [][\A id \in GroupPathIds, text \in MessageTexts, sender \in Usernames :
       (res'.route = "sendMessage" /\ SendMessage(id, text, sender))
       => IF trim(text) = <<>>
          THEN /\ res'.status = 400
               /\ users' = users
               /\ groups' = groups
          ELSE id \in GroupIds(groups)
               => LET k == CHOOSE i \in 1..Len(groups) : groups[i].id = id
                      before == groups[k].messages
                      after == groups'[k].messages
                  IN /\ res'.status = 200
                     /\ Len(after) = Len(before) + 1
                     /\ SubSeq(after, 1, Len(before)) = before
                     /\ DOMAIN Last(after).reactions = {}
                     /\ Last(after).text = trim(text)
                     /\ Last(after).sender = sender
                     /\ Last(after).id \notin MessagePathIds
                     /\ groups' = [groups EXCEPT ![k].messages = after]
                     /\ users' = users
                     /\ res'.body.messages = after
                     /\ res'.body.message = Last(after)]_vars

\* A Send appended a second message after one that has a reaction
C18_Witness ==
  /\ res.route = "sendMessage"
  /\ res.status = 200
  /\ Len(res.body.messages) = 2
  /\ DOMAIN res.body.messages[1].reactions # {}
  /\ \E i \in 1..Len(groups) : groups[i].messages = res.body.messages

\* C19: a Create whose name is empty or only spaces, or that has no creator,
\* is answered 400 and adds no group; any other Create adds exactly one group,
\* at the end of the stored groups, whose members are the creator alone, whose
\* createdBy is the creator and whose hangouts and messages are empty, and
\* leaves the groups stored before as they were.
C19_CreateAddsOne ==
  [][\A name \in GroupNames, createdBy \in UsernamesOrNone, r \in CodeDraws :
       (res'.route = "createGroup" /\ CreateGroup(name, createdBy, r))
       => IF trim(name) = <<>> \/ createdBy = <<>>
          THEN /\ res'.status = 400
               /\ groups' = groups
               /\ users' = users
          ELSE /\ res'.status = 200
               /\ Len(groups') = Len(groups) + 1
               /\ SubSeq(groups', 1, Len(groups)) = groups
               /\ Last(groups').members = <<createdBy>>
               /\ Last(groups').createdBy = createdBy
               /\ Last(groups').hangouts = <<>>
               /\ Last(groups').messages = <<>>
               /\ Last(groups').name = trim(name)
               /\ Last(groups').id \notin GroupIds(groups)
               /\ res'.body.group = Last(groups')
               /\ users' = users]_vars

\* A Create added a second group after one that a second member had joined
C19_Witness ==
  /\ res.route = "createGroup"
  /\ res.status = 200
  /\ Len(groups) = 2
  /\ Len(groups[1].members) = 2
  /\ res.body.group = groups[2]

\* Client c has saved a change of its own that client d never read: no store
\* call of c is in flight, the last hangout of c's copy is one c proposed,
\* and d's copy does not hold it
SavedUnread(c, d) ==
  /\ Idle(c)
  /\ client[c].currentGroup # <<>>
  /\ client[d].currentGroup # <<>>
  /\ client[c].currentGroup[1].hangouts # <<>>
  /\ Last(client[c].currentGroup[1].hangouts).proposedBy = c
  /\ Last(client[c].currentGroup[1].hangouts) \notin Range(client[d].currentGroup[1].hangouts)

\* C20: when two writers have each written back a copy that they read before
\* the other's change was stored, the store holds the hangouts of the later
\* writer's copy alone: the change of the earlier writer is not stored, and
\* nothing has refused the later write.
C20_LaterWriteDiscardsEarlier ==
  \A c \in Usernames : \A d \in Usernames \ {c} :
    (SavedUnread(c, d) /\ SavedUnread(d, c))
    => /\ cloud[1].hangouts \in { client[c].currentGroup[1].hangouts,
                                  client[d].currentGroup[1].hangouts }
       /\ \/ Last(client[c].currentGroup[1].hangouts) \notin Range(cloud[1].hangouts)
          \/ Last(client[d].currentGroup[1].hangouts) \notin Range(cloud[1].hangouts)

\* Both clients opened the group before either proposed; both saved; the
\* store holds the hangout of one of them only
C20_Witness ==
  \E c \in Usernames : \E d \in Usernames \ {c} :
    /\ SavedUnread(c, d)
    /\ SavedUnread(d, c)
    /\ Len(client[c].currentGroup[1].hangouts) = 1
    /\ Len(client[d].currentGroup[1].hangouts) = 1
    /\ cloud[1].hangouts = client[d].currentGroup[1].hangouts

\* C21: a sendMessage or addReaction of the client whose request was not
\* sent, did not reach the server, or was answered with an error leaves the
\* client's copy of its group as it was: no message added, no reaction
\* changed.
C21_FailedRequestKeepsClientState ==
  [][/\ \A text \in MessageTexts, outcome \in Outcomes :
          (/\ sendMessage(<<"a">>, text, outcome)
           /\ outcome # "answered" \/ res'.status # 200)
          => client' = client
     /\ \A messageId \in LocalMessageIds(<<"a">>), outcome \in Outcomes :
          (/\ addReaction(<<"a">>, messageId, "like", outcome)
           /\ outcome # "answered" \/ res'.status # 200)
          => client' = client
    ]_vars

\* C22: as long as a group is stored, every message of its list stays at its
\* place with its id, text and sender through every step, the list never
\* gets shorter, and the reactions of a message change only in a React on
\* that message of that group.
C22_MessagesOnlyGrow ==
  [][\A i \in 1..Len(groups) :
       groups[i].id \in GroupIds(groups')
       => LET before == groups[i].messages
              after == GroupOf(groups', groups[i].id).messages
          IN /\ Len(after) >= Len(before)
             /\ \A j \in 1..Len(before) :
                  /\ [after[j] EXCEPT !.reactions = before[j].reactions] = before[j]
                  /\ after[j].reactions # before[j].reactions
                     => /\ res'.route = "reactToMessage"
                        /\ ReactToMessage(groups[i].id, before[j].id, <<"a">>, "like")
    ]_vars

\* A hangout was deleted in a group whose message has a reaction
C22_Witness ==
  /\ res.route = "deleteHangout"
  /\ res.status = 200
  /\ \E i \in 1..Len(groups) :
       /\ Len(groups[i].messages) = 1
       /\ DOMAIN groups[i].messages[1].reactions # {}

\* C23: in every state reached by Sends and Reacts, each emoji key of each
\* message's reactions map has a list of at least one username in which no
\* username is repeated: a key whose last user was removed is gone with it.
C23_ReactionListsNonEmpty ==
  \A i \in 1..Len(groups) : \A j \in 1..Len(groups[i].messages) :
    \A e \in DOMAIN groups[i].messages[j].reactions :
      /\ groups[i].messages[j].reactions[e] # <<>>
      /\ NoDuplicates(groups[i].messages[j].reactions[e])

\* After a React a message has one emoji of two users and the other emoji
\* of none
C23_Witness ==
  /\ res.route = "reactToMessage"
  /\ res.status = 200
  /\ DOMAIN res.body.message.reactions = {"love"}
  /\ Len(res.body.message.reactions["love"]) = 2

\* C24: a React changes the stored groups only when the reacting username is
\* at that moment one of the members of the group the path names (the React
\* part of the claim about Propose, Respond, Send and React).
C24_OnlyMembersChangeGroup ==
  [][\A groupId \in GroupPathIds, messageId \in MessagePathIds, username \in Usernames,
       emoji \in Emojis :
       (/\ res'.route = "reactToMessage"
        /\ ReactToMessage(groupId, messageId, username, emoji)
        /\ groups' # groups)
       => username \in Range(GroupOf(groups, groupId).members)]_vars

\* C25: for every stored hangout, the number of "going" responses and the
\* number of "notGoing" responses are never both more than half of the
\* current member count of its group.
C25_ConfirmedExcludesCancelled ==
  \A i \in 1..Len(groups) : \A j \in 1..Len(groups[i].hangouts) :
    LET responses == groups[i].hangouts[j].responses
        memberCount == Len(groups[i].members)
    IN ~ /\ 2 * countResponses(responses, "going") > memberCount
         /\ 2 * countResponses(responses, "notGoing") > memberCount

\* The position of a member in a member list
PositionIn(members, m) == CHOOSE p \in 1..Len(members) : members[p] = m

C27_FailedSaveIsNotSuccess ==
  [][disk = "writeFails"
     => /\ \A username \in Usernames :
             (/\ res'.route = "joinGroup"
              /\ JoinGroup(<<"A", "A", "A", "-", "0", "0", "0", "0">>, username))
             => res'.status # 200
        /\ \A id \in PathIds :
             (/\ res'.route = "sendMessage"
              /\ SendMessage(id, <<"m">>, <<"a">>))
             => res'.status # 200]_vars

\* C28: with no Leave among the operations, every stored user and every
\* stored group is still stored after every step, whether or not a read of
\* DATA_FILE failed before it.
C28_FailedReadLosesNothing ==
  [][/\ Range(users) \subseteq Range(users')
     /\ GroupIds(groups) \subseteq GroupIds(groups')]_vars

\* C29: whenever a client's deleteDoc removes the group's document, the
\* members stored in it at that moment are at most the leaving client: no
\* other member is stored in the document that is deleted.
C29_DeletedOnlyWhenEmpty ==
  [][\A c \in Usernames :
       (cloud # <<>> /\ deleteDoc(c)) => Range(cloud[1].members) \subseteq {c}]_vars

\* C30: whenever a page's currentGroup is not null, the object it refers to
\* is one of the objects of the page's groups array.
C30_CurrentGroupInGroups ==
  \A c \in Usernames :
    client[c].page.currentGroup # 0
    => client[c].page.currentGroup \in Range(client[c].page.groups)

====
